---- MODULE Spec2Model ----
(***************************************************************************)
(* A model of mcp_tools: the source loader (template_loader.py), the tool  *)
(* synthesizer (tool_generator.py) and the startup script (main.py).       *)
(*                                                                         *)
(* Python strings are sequences of one-character strings, so that          *)
(* splitting, stripping, regular-expression matching and concatenation are *)
(* computed character by character as the code computes them.              *)
(***************************************************************************)
EXTENDS Integers, Sequences, FiniteSets, TLC

VARIABLES
    pc,         \* position of the running script / function
    config,     \* main.py: TEMPLATES_SOURCE, the raw configured string
    world,      \* per descriptor: what the file system and the network answer
    sources,    \* main.py: the list `sources`
    idx,        \* main.py: index of the next element of `sources` (1-based)
    routes,     \* app.routes: the operations registered on the FastAPI app
    stdout,     \* the lines printed so far
    outcomes,   \* per processed source: what its loop iteration did
    arg,        \* the argument of the function under study (pure functions)
    ret,        \* its result
    inflight,   \* requests received and not yet answered
    responses   \* answered requests

vars == <<pc, config, world, sources, idx, routes, stdout, outcomes,
          arg, ret, inflight, responses>>

None == "None"

----------------------------------------------------------------------------
(* Characters and Python's str methods                                     *)

S_upper == <<"A","B","C","D","E","F","G","H","I","J","K","L","M",
             "N","O","P","Q","R","S","T","U","V","W","X","Y","Z">>
S_lower == <<"a","b","c","d","e","f","g","h","i","j","k","l","m",
             "n","o","p","q","r","s","t","u","v","w","x","y","z">>
Digits == {"0","1","2","3","4","5","6","7","8","9"}
Range(s) == {s[i] : i \in 1..Len(s)}
Letters == Range(S_upper) \cup Range(S_lower)

\* \w of the re module
IsWordChar(c) == c \in Letters \cup Digits \cup {"_"}
\* \s of the re module, and what str.strip() removes
IsSpaceChar(c) == c \in {" ", "\t", "\n", "\r", "\f"}

\* str.lower() on one character
LowerChar(c) ==
    IF \E i \in 1..26 : S_upper[i] = c
    THEN S_lower[CHOOSE i \in 1..26 : S_upper[i] = c]
    ELSE c

str_lower(s) == [i \in 1..Len(s) |-> LowerChar(s[i])]

\* str.replace(old, new) for a one-character old and new
str_replace(s, old, new) == [i \in 1..Len(s) |-> IF s[i] = old THEN new ELSE s[i]]

\* s[i:] and s[:i] for a 1-based position i
From(s, i) == SubSeq(s, i, Len(s))
Upto(s, i) == SubSeq(s, 1, i)

\* the least and the greatest element of a non-empty set of integers
MinOf(S) == CHOOSE i \in S : \A j \in S : i <= j
MaxOf(S) == CHOOSE i \in S : \A j \in S : j <= i

\* str.strip()
str_strip(s) ==
    LET keep == {i \in 1..Len(s) : ~IsSpaceChar(s[i])}
    IN  IF keep = {} THEN <<>> ELSE SubSeq(s, MinOf(keep), MaxOf(keep))

\* index of the first occurrence of character c in s, 0 when there is none
FindChar(s, c) ==
    IF \E i \in 1..Len(s) : s[i] = c
    THEN CHOOSE i \in 1..Len(s) : s[i] = c /\ \A j \in 1..(i-1) : s[j] # c
    ELSE 0

\* str.split(sep) for a one-character separator
RECURSIVE str_split(_, _)
str_split(s, sep) ==
    IF FindChar(s, sep) = 0 THEN <<s>>
    ELSE <<Upto(s, FindChar(s, sep) - 1)>> \o str_split(From(s, FindChar(s, sep) + 1), sep)

\* str.split(sep, 1)
str_split1(s, sep) ==
    IF FindChar(s, sep) = 0 THEN <<s>>
    ELSE <<Upto(s, FindChar(s, sep) - 1), From(s, FindChar(s, sep) + 1)>>

\* sep.join(parts)
RECURSIVE str_join(_, _)
str_join(parts, sep) ==
    IF Len(parts) = 0 THEN <<>>
    ELSE IF Len(parts) = 1 THEN parts[1]
    ELSE parts[1] \o sep \o str_join(Tail(parts), sep)

\* str.lstrip()
str_lstrip(s) ==
    LET keep == {i \in 1..Len(s) : ~IsSpaceChar(s[i])}
    IN  IF keep = {} THEN <<>> ELSE SubSeq(s, MinOf(keep), Len(s))

\* all sequences over S of length at most n
SeqsUpTo(S, n) == UNION {[1..k -> S] : k \in 0..n}

----------------------------------------------------------------------------
(* String literals of the source                                           *)

S_http == <<"h","t","t","p">>
S_https == <<"h","t","t","p","s">>
S_md == <<".","m","d">>
S_yaml == <<".","y","a","m","l">>
S_yml == <<".","y","m","l">>
S_template == <<"t","e","m","p","l","a","t","e">>
S_create_ == <<"c","r","e","a","t","e","_">>
S_issue_dir == <<".","g","i","t","h","u","b","/","I","S","S","U","E","_",
                 "T","E","M","P","L","A","T","E">>
S_raw_host == <<"r","a","w",":">>
S_main == <<"m","a","i","n">>

StartsWith(s, p) == Len(s) >= Len(p) /\ SubSeq(s, 1, Len(p)) = p
EndsWith(s, p) == Len(s) >= Len(p) /\ SubSeq(s, Len(s) - Len(p) + 1, Len(s)) = p

----------------------------------------------------------------------------
(* template_loader.py                                                      *)

\* urllib.parse.urlparse(path).scheme: leading white space is dropped; the
\* text before the first ':' is the scheme when it is not empty, starts with
\* a letter and holds only letters, digits, '+', '-' and '.'; lower-cased.
scheme_before(url, i) ==
    IF /\ i > 1
       /\ url[1] \in Letters
       /\ \A k \in 1..(i-1) : url[k] \in Letters \cup Digits \cup {"+", "-", "."}
    THEN str_lower(Upto(url, i-1))
    ELSE <<>>

scheme_of(url) == scheme_before(url, FindChar(url, ":"))

url_scheme(path) == scheme_of(str_lstrip(path))

\* s up to its first character in `stops` (all of s when there is none)
Before(s, stops) ==
    LET at == {k \in 1..Len(s) : s[k] \in stops}
    IN  IF at = {} THEN s ELSE Upto(s, MinOf(at) - 1)

\* s from its first character in `stops` on (nothing when there is none)
FromFirst(s, stops) ==
    LET at == {k \in 1..Len(s) : s[k] \in stops}
    IN  IF at = {} THEN <<>> ELSE From(s, MinOf(at))

\* urlparse(url).path of an http(s) URL: what follows the network location,
\* up to the query or the fragment
after_netloc(rest) ==
    IF StartsWith(rest, <<"/","/">>) THEN FromFirst(From(rest, 3), {"/", "?", "#"})
    ELSE rest

url_path(url) == Before(after_netloc(From(url, FindChar(url, ":") + 1)), {"?", "#"})

is_url(path) == url_scheme(path) \in {S_http, S_https}

\* [\w\-\.]+
IsSlugSegment(s) ==
    Len(s) > 0 /\ \A i \in 1..Len(s) : IsWordChar(s[i]) \/ s[i] \in {"-", "."}

\* re.match(r"^[\w\-\.]+/[\w\-\.]+$", path); '$' also matches before one
\* trailing newline
SlugShape(s) ==
    /\ FindChar(s, "/") > 0
    /\ IsSlugSegment(Upto(s, FindChar(s, "/") - 1))
    /\ IsSlugSegment(From(s, FindChar(s, "/") + 1))

is_github_repo_format(path) ==
    \/ SlugShape(path)
    \/ /\ Len(path) > 0
       /\ path[Len(path)] = "\n"
       /\ SlugShape(Upto(path, Len(path) - 1))

path_parts(p) == SelectSeq(str_split(p, "/"), LAMBDA c : c # <<>> /\ c # <<".">>)

\* pathlib: Path(p).name, the last component ('' and '.' components vanish)
LastOrEmpty(parts) == IF Len(parts) = 0 THEN <<>> ELSE parts[Len(parts)]

path_name(p) == LastOrEmpty(path_parts(p))

\* pathlib: PurePath.stem, the name without its last suffix
stem_of(name) ==
    LET dots == {i \in 1..Len(name) : name[i] = "."}
    IN  IF dots # {} /\ 1 < MaxOf(dots) /\ MaxOf(dots) < Len(name)
        THEN Upto(name, MaxOf(dots) - 1)
        ELSE name

path_stem(p) == stem_of(path_name(p))

\* pathlib: the root of a POSIX path (exactly two leading slashes are kept)
path_root(p) ==
    IF StartsWith(p, <<"/","/">>) /\ ~StartsWith(p, <<"/","/","/">>) THEN <<"/","/">>
    ELSE IF StartsWith(p, <<"/">>) THEN <<"/">>
    ELSE <<>>

Rooted(root, tail) == IF root = <<>> /\ tail = <<>> THEN <<".">> ELSE root \o tail

\* str(Path(p)): repeated slashes, '.' components and a trailing slash vanish
path_str(p) == Rooted(path_root(p), str_join(path_parts(p), <<"/">>))

\* str(dir_path / name), dir_path = Path(dir)
path_join(dir, name) ==
    Rooted(path_root(dir), str_join(Append(path_parts(dir), name), <<"/">>))

TemplateSource(name, content, source_type, source_path) ==
    [name |-> name, content |-> content,
     source_type |-> source_type, source_path |-> source_path]

\* The result of running a generator (or a function) to its end: what it
\* yielded, in order, the exception that ended it (None: it returned), and
\* the requests it made of the file system and the network, in order.
Ran(yielded, raised, calls) == [yielded |-> yielded, raised |-> raised, calls |-> calls]

\* r, preceded by the requests `calls` and the yielded `items`
After(calls, items, r) == Ran(items \o r.yielded, r.raised, calls \o r.calls)

\* get_github_raw_url
get_github_raw_url(owner, repo, path, branch) ==
    S_raw_host \o owner \o <<"/">> \o repo \o <<"/">> \o branch \o <<"/">> \o path

\* fetch_url_content: the body, or an exception (a connection error, a
\* timeout, or raise_for_status on a status that is not 2xx)
fetch_url_content(url, net) ==
    IF net.fetch = "ok"
    THEN [text |-> net.body, raised |-> None, calls |-> << <<"GET", url>> >>]
    ELSE [text |-> <<>>, raised |-> "FetchError", calls |-> << <<"GET", url>> >>]

\* list_github_issue_templates, lines 74-79: the paths of the listed files
\* whose name ends in .md, .yaml or .yml
IsTemplateFile(f) ==
    /\ f.type = "file"
    /\ \/ EndsWith(f.name, S_md)
       \/ EndsWith(f.name, S_yaml)
       \/ EndsWith(f.name, S_yml)

PathsOf(files) == [i \in 1..Len(files) |-> files[i].path]

Listed(paths, raised, owner, repo) ==
    [paths |-> paths, raised |-> raised, calls |-> << <<"LIST", owner, repo>> >>]

\* list_github_issue_templates without lines 67-69: a 404 raises as well
list_github_issue_templates_Strict(owner, repo, net) ==
    IF net.list_status # 200 THEN Listed(<<>>, "FetchError", owner, repo)
    ELSE Listed(PathsOf(SelectSeq(net.listing, IsTemplateFile)), None, owner, repo)

\* list_github_issue_templates: [] on 404, an exception on any other failing
\* answer (raise_for_status) or on no answer
list_github_issue_templates(owner, repo, net) ==
    IF net.list_status = 404 THEN Listed(<<>>, None, owner, repo)
    ELSE IF net.list_status # 200 THEN Listed(<<>>, "FetchError", owner, repo)
    ELSE Listed(PathsOf(SelectSeq(net.listing, IsTemplateFile)), None, owner, repo)

\* dir_path.glob("*.md"): the entries of the directory whose name ends in .md
glob_md(entries) == SelectSeq(entries, LAMBDA e : EndsWith(e.name, S_md))

\* load_from_local_directory: a generator; reading a file raises inside it,
\* which ends the generator after what it had already yielded
RECURSIVE load_dir_entries(_, _)
load_dir_entries(dir_path, entries) ==
    IF Len(entries) = 0 THEN Ran(<<>>, None, <<>>)
    ELSE IF entries[1].kind # "file" THEN load_dir_entries(dir_path, Tail(entries))
    ELSE IF ~entries[1].readable
    THEN Ran(<<>>, "ReadError", << <<"READ", path_join(dir_path, entries[1].name)>> >>)
    ELSE After(<< <<"READ", path_join(dir_path, entries[1].name)>> >>,
               <<TemplateSource(path_stem(entries[1].name), entries[1].content,
                                "local_dir", path_join(dir_path, entries[1].name))>>,
               load_dir_entries(dir_path, Tail(entries)))

load_from_local_directory(dir_path, fs) ==
    After(<< <<"GLOB", dir_path>> >>, <<>>,
          load_dir_entries(dir_path, glob_md(fs.entries)))

\* load_from_local_file
load_from_local_file(file_path, fs) ==
    IF fs.readable
    THEN Ran(<<TemplateSource(path_stem(file_path), fs.content, "local_file",
                            path_str(file_path))>>,
             None, << <<"READ", file_path>> >>)
    ELSE Ran(<<>>, "ReadError", << <<"READ", file_path>> >>)

\* one TemplateSource from a fetched body, or the exception of the fetch
Fetched(f, name, source_type, source_path) ==
    IF f.raised # None THEN Ran(<<>>, f.raised, f.calls)
    ELSE Ran(<<TemplateSource(name, f.text, source_type, source_path)>>, None, f.calls)

OrTemplate(stem) == IF stem = <<>> THEN S_template ELSE stem

\* load_from_url
load_from_url(url, net) ==
    Fetched(fetch_url_content(url, net), OrTemplate(path_stem(url_path(url))), "url", url)

\* load_from_github_repo, lines 150-164: a listed file that cannot be
\* fetched is printed and skipped
Skipping(r) == Ran(r.yielded, None, r.calls)

ThenRest(one, rest) ==
    Ran(one.yielded \o rest.yielded, rest.raised, one.calls \o rest.calls)

RECURSIVE load_listed(_, _, _, _)
load_listed(owner, repo, paths, net) ==
    IF Len(paths) = 0 THEN Ran(<<>>, None, <<>>)
    ELSE IF ~EndsWith(paths[1], S_md) THEN load_listed(owner, repo, Tail(paths), net)
    ELSE ThenRest(Skipping(Fetched(
                      fetch_url_content(
                          get_github_raw_url(owner, repo, paths[1], S_main), net),
                      path_stem(paths[1]), "github",
                      owner \o <<"/">> \o repo \o <<"/">> \o paths[1])),
                  load_listed(owner, repo, Tail(paths), net))

\* Optional[str]: None is the empty tuple, a string s is <<s>>
Some(s) == <<s>>
Truthy(opt) == Len(opt) = 1 /\ opt[1] # <<>>

\* load_from_github_repo, lines 148-164
ListedThenLoaded(l, owner, repo, net) ==
    IF l.raised # None THEN Ran(<<>>, l.raised, l.calls)
    ELSE After(l.calls, <<>>, load_listed(owner, repo, l.paths, net))

\* load_from_github_repo: `if template_path:` takes the single-file branch
\* only for a path that is neither None nor empty
load_from_github_repo(owner, repo, template_path, net) ==
    IF Truthy(template_path)
    THEN Fetched(fetch_url_content(
                     get_github_raw_url(owner, repo, template_path[1], S_main), net),
                 path_stem(template_path[1]), "github",
                 owner \o <<"/">> \o repo \o <<"/">> \o template_path[1])
    ELSE ListedThenLoaded(list_github_issue_templates(owner, repo, net), owner, repo, net)

\* load_templates, lines 197-202 and 204-208
HasRepoPrefix(source) ==
    FindChar(source, ":") > 0 /\ is_github_repo_format(str_split(source, ":")[1])

OfRepo(own, template_path, net) == load_from_github_repo(own[1], own[2], template_path, net)

WithPath(parts, net) == OfRepo(str_split(parts[1], "/"), Some(parts[2]), net)

\* load_templates, lines 211-220
load_local(source, fs) ==
    IF fs.kind = "dir" THEN load_from_local_directory(source, fs)
    ELSE IF fs.kind = "file" THEN load_from_local_file(source, fs)
    ELSE Ran(<<>>, "ValueError", <<>>)

\* load_templates with the local path tested before the repository forms
load_templates_LocalFirst(source, env) ==
    IF is_url(source) THEN load_from_url(source, env.net)
    ELSE IF env.fs.kind \in {"dir", "file"} THEN load_local(source, env.fs)
    ELSE IF HasRepoPrefix(source) THEN WithPath(str_split1(source, ":"), env.net)
    ELSE IF is_github_repo_format(source)
    THEN OfRepo(str_split(source, "/"), <<>>, env.net)
    ELSE load_local(source, env.fs)

\* load_templates: env is what the file system answers about Path(source)
\* and what the network answers while this source is loaded
load_templates(source, env) ==
    IF is_url(source) THEN load_from_url(source, env.net)
    ELSE IF HasRepoPrefix(source) THEN WithPath(str_split1(source, ":"), env.net)
    ELSE IF is_github_repo_format(source)
    THEN OfRepo(str_split(source, "/"), <<>>, env.net)
    ELSE load_local(source, env.fs)

----------------------------------------------------------------------------
(* Template text, its parser and its renderer (template_parser.py)         *)

\* A template's content is a sequence of tokens: running text, a placeholder
\* for a variable, an authoring annotation (a comment giving a variable's
\* description and example), a title line, an "about" line.
Tok(t, id, body, example) == [t |-> t, id |-> id, body |-> body, example |-> example]
Text(w) == Tok("text", "", <<w>>, <<>>)
Placeholder(v) == Tok("ph", v, <<>>, <<>>)
Note(v, desc, example) == Tok("note", v, desc, example)
Title(chars) == Tok("title", "", chars, <<>>)
About(words) == Tok("about", "", words, <<>>)

\* the names of the placeholders of a content, each once, in order of first
\* appearance
RECURSIVE slot_names(_, _)
slot_names(content, seen) ==
    IF Len(content) = 0 THEN <<>>
    ELSE IF content[1].t = "ph" /\ content[1].id \notin seen
    THEN <<content[1].id>> \o slot_names(Tail(content), seen \cup {content[1].id})
    ELSE slot_names(Tail(content), seen)

VariableSlot(name, description, example) ==
    [name |-> name, description |-> description, example |-> example]

\* the slot of variable v: its first annotation gives description and example
SlotFrom(v, notes) ==
    IF Len(notes) = 0 THEN VariableSlot(v, <<>>, <<>>)
    ELSE VariableSlot(v, notes[1].body, notes[1].example)

SlotsOf(names, content) ==
    [i \in 1..Len(names) |->
        SlotFrom(names[i], SelectSeq(content, LAMBDA k : k.t = "note" /\ k.id = names[i]))]

FirstBodyOr(toks, default) == IF Len(toks) > 0 THEN toks[1].body ELSE default

parse_template(name, content) ==
    [name |-> FirstBodyOr(SelectSeq(content, LAMBDA k : k.t = "title"), name),
     about |-> FirstBodyOr(SelectSeq(content, LAMBDA k : k.t = "about"), <<>>),
     variables |-> SlotsOf(slot_names(content, {}), content),
     raw_content |-> content]

\* render_template: a placeholder whose variable is supplied becomes its
\* value; with remove_comments the annotations are dropped
Substitute(kept, variables) ==
    [i \in 1..Len(kept) |->
        IF kept[i].t = "ph" /\ kept[i].id \in DOMAIN variables
        THEN Text(variables[kept[i].id])
        ELSE kept[i]]

render_template(content, variables, remove_comments) ==
    IF remove_comments
    THEN Substitute(SelectSeq(content, LAMBDA k : k.t # "note"), variables)
    ELSE Substitute(content, variables)

----------------------------------------------------------------------------
(* tool_generator.py                                                       *)

\* re.sub(r"[^\w\s]", "", name)
strip_punctuation(name) == SelectSeq(name, LAMBDA c : IsWordChar(c) \/ IsSpaceChar(c))

Prefixed(name) == IF name = <<>> THEN S_create_ \o S_template ELSE S_create_ \o name

\* lines 98-101, tool_name is None: the tool name derived from parsed.name
derive_tool_name(parsed_name) ==
    Prefixed(str_replace(
        str_lower(str_strip(strip_punctuation(
            IF parsed_name = <<>> THEN S_template ELSE parsed_name))),
        " ", "_"))

S_example == <<"\n\nExample:\n">>

\* lines 104-109 without the test of line 107: the example always appended
param_info_ExampleAlways(variables) ==
    [i \in 1..Len(variables) |->
        <<variables[i].name,
          variables[i].description \o S_example \o variables[i].example>>]

\* lines 104-109: one (name, description) pair per variable
param_info(variables) ==
    [i \in 1..Len(variables) |->
        <<variables[i].name,
          IF variables[i].example # <<>>
          THEN variables[i].description \o S_example \o variables[i].example
          ELSE variables[i].description>>]

\* Field(description=desc) of type str: no default, hence required
Field(name, desc) ==
    [name |-> name, type |-> "str", default |-> <<>>, required |-> TRUE,
     description |-> desc]

\* lines 112-114: field_definitions, a dict: a key set again keeps its
\* position and takes the new value
DictSet(fields, f) ==
    IF \E i \in 1..Len(fields) : fields[i].name = f.name
    THEN [i \in 1..Len(fields) |-> IF fields[i].name = f.name THEN f ELSE fields[i]]
    ELSE Append(fields, f)

RECURSIVE field_definitions(_)
field_definitions(info) ==
    IF Len(info) = 0 THEN <<>>
    ELSE DictSet(field_definitions(Upto(info, Len(info) - 1)),
                 Field(info[Len(info)][1], info[Len(info)][2]))

\* lines 135-146: the route app.post registers; template_content and
\* remove_comments are the closure of endpoint_func
Route(tool_name, parsed, template_content, source_identifier, remove_comments) ==
    [name |-> tool_name,
     path |-> <<"/">> \o tool_name,
     schema |-> field_definitions(param_info(parsed.variables)),
     description |-> IF parsed.about # <<>> THEN <<"about", parsed.about>>
                     ELSE <<"Create content from template", parsed.name>>,
     summary |-> IF parsed.name # <<>> THEN parsed.name ELSE tool_name,
     template_content |-> template_content,
     remove_comments |-> remove_comments,
     source_identifier |-> source_identifier]

\* _create_tool_internal with tool_name None
create_tool_internal(parsed, template_content, source_identifier, remove_comments) ==
    Route(derive_tool_name(parsed.name), parsed, template_content,
          source_identifier, remove_comments)

\* create_tool_from_source
create_tool_from_source(source, remove_comments) ==
    create_tool_internal(parse_template(source.name, source.content),
                         source.content, source.source_path, remove_comments)

\* create_tool_from_template: parse_template(path) reads the file, and the
\* content registered is parsed.raw_content
FromParsed(parsed, source_identifier, remove_comments) ==
    create_tool_internal(parsed, parsed.raw_content, source_identifier, remove_comments)

create_tool_from_template(template_path, entry, remove_comments) ==
    FromParsed(parse_template(path_stem(template_path), entry.content),
               template_path, remove_comments)

\* What a registration function did: the routes of the app afterwards, the
\* lines it printed, the exception that left it (None: it returned) and the
\* number of operations in its list `tools`
Did(rts, out, raised, tools) ==
    [routes |-> rts, out |-> out, raised |-> raised, tools |-> tools]

AndThen(line, n, rest) == Did(rest.routes, <<line>> \o rest.out, rest.raised, rest.tools + n)

\* register_templates_from_directory: each file in its own try; a path that
\* cannot be read (no permission, not text, a directory) is printed and skipped
RECURSIVE register_dir_entries(_, _, _, _)
register_dir_entries(rts, dir, entries, remove_comments) ==
    IF Len(entries) = 0 THEN Did(rts, <<>>, None, 0)
    ELSE IF entries[1].kind = "file" /\ entries[1].readable
    THEN AndThen(<<"Registered endpoint from", path_join(dir, entries[1].name)>>, 1,
                 register_dir_entries(
                     Append(rts, create_tool_from_template(
                                     path_join(dir, entries[1].name), entries[1],
                                     remove_comments)),
                     dir, Tail(entries), remove_comments))
    ELSE AndThen(<<"Failed to register", path_join(dir, entries[1].name)>>, 0,
                 register_dir_entries(rts, dir, Tail(entries), remove_comments))

register_templates_from_directory(rts, templates_dir, fs, remove_comments) ==
    register_dir_entries(rts, templates_dir,
                         IF fs.kind = "dir" THEN glob_md(fs.entries) ELSE <<>>,
                         remove_comments)

\* register_templates_from_source, lines 227-237: the loop body
RECURSIVE register_sources(_, _, _)
register_sources(rts, items, remove_comments) ==
    IF Len(items) = 0 THEN Did(rts, <<>>, None, 0)
    ELSE AndThen(<<"Registered endpoint from", items[1].source_path>>, 1,
                 register_sources(
                     Append(rts, create_tool_from_source(items[1], remove_comments)),
                     Tail(items), remove_comments))

\* the try is inside the loop, so an exception raised by the generator
\* load_templates leaves the function, after what was registered before it
Leaving(r, raised) == Did(r.routes, r.out, raised, r.tools)

RegisterLoaded(rts, l, remove_comments) ==
    Leaving(register_sources(rts, l.yielded, remove_comments), l.raised)

register_templates_from_source(rts, source, env, remove_comments) ==
    RegisterLoaded(rts, load_templates(source, env), remove_comments)

----------------------------------------------------------------------------
(* main.py                                                                 *)

\* load_templates_from_source (lines 38-52); every registration uses the
\* default remove_comments=True
load_templates_from_source(rts, source, env) ==
    IF is_url(source) \/ is_github_repo_format(source) \/ FindChar(source, ":") > 0
    THEN register_templates_from_source(rts, source, env, TRUE)
    ELSE IF env.fs.kind = "dir"
    THEN register_templates_from_directory(rts, source, env.fs, TRUE)
    ELSE IF env.fs.kind # "none"
    THEN register_templates_from_source(rts, source, env, TRUE)
    ELSE Did(rts, << <<"Templates source not found", source>> >>, None, 0)

\* line 56: sources = [s.strip() for s in TEMPLATES_SOURCE.split(",") if s.strip()]
StripAll(pieces) == [i \in 1..Len(pieces) |-> str_strip(pieces[i])]

split_sources(text) == SelectSeq(StripAll(str_split(text, ",")), LAMBDA p : p # <<>>)

\* One iteration of the loop of lines 57-62
Iteration(source, d, caught, crashed, failed) ==
    [routes |-> d.routes,
     out |-> << <<"Loading templates from", source>> >> \o d.out \o failed,
     caught |-> caught, tools |-> d.tools, crashed |-> crashed]

Uncaught(source, d) == Iteration(source, d, None, d.raised # None, <<>>)

Caught(source, d) ==
    Iteration(source, d, d.raised, FALSE,
              IF d.raised # None THEN << <<"Failed to load from", source>> >> ELSE <<>>)

\* the loop body without its try
main_iteration_NoTry(rts, source, env) ==
    Uncaught(source, load_templates_from_source(rts, source, env))

\* the loop body, lines 58-62
main_iteration(rts, source, env) ==
    Caught(source, load_templates_from_source(rts, source, env))

----------------------------------------------------------------------------
(* The inputs: template texts, directories, network answers, descriptors   *)

MaxSources == 2

C_bug == <<Text("Bug"), Note("x", <<"what">>, <<"e.g.">>), Placeholder("x")>>
C_feat == <<About(<<"feature">>), Placeholder("y"), Note("y", <<>>, <<>>),
            Placeholder("x"), Placeholder("y")>>
C_bug2 == <<Placeholder("y"), Text("other")>>
C_remote == <<Title(<<"B","u","g">>), Placeholder("x"), Note("x", <<"why">>, <<>>)>>

DirEntry(name, kind, readable, content) ==
    [name |-> name, kind |-> kind, readable |-> readable, content |-> content]
E_bug == DirEntry(<<"b","u","g",".","m","d">>, "file", TRUE, C_bug)
E_bad == DirEntry(<<"b","a","d",".","m","d">>, "file", FALSE, <<>>)
E_feat == DirEntry(<<"f","e","a","t",".","m","d">>, "file", TRUE, C_feat)
E_bug2 == DirEntry(<<"B","u","g","!",".","m","d">>, "file", TRUE, C_bug2)
E_txt == DirEntry(<<"n",".","t","x","t">>, "file", TRUE, C_bug)
E_sub == DirEntry(<<"o","l","d",".","m","d">>, "dir", FALSE, <<>>)

\* what the file system answers about a path
Fs(kind, entries, readable, content) ==
    [kind |-> kind, entries |-> entries, readable |-> readable, content |-> content]
FsNone == Fs("none", <<>>, FALSE, <<>>)
FsOther == Fs("other", <<>>, FALSE, <<>>)
FsFile(readable) == Fs("file", <<>>, readable, IF readable THEN C_bug ELSE <<>>)
FsDir(entries) == Fs("dir", entries, FALSE, <<>>)

DirSamples ==
    { <<E_bug, E_bad, E_feat>>, <<E_bug, E_txt, E_feat>>, <<E_bug, E_bug2>>,
      <<E_sub, E_feat>> }
FsSamples == {FsNone, FsFile(TRUE)} \cup {FsDir(d) : d \in DirSamples}

ListEntry(name, type) == [path |-> S_issue_dir \o <<"/">> \o name, name |-> name, type |-> type]
RepoListing ==
    << ListEntry(<<"b","u","g",".","m","d">>, "file"),
       ListEntry(<<"c",".","y","m","l">>, "file"),
       ListEntry(<<"o","l","d",".","m","d">>, "dir"),
       ListEntry(<<"f",".","m","d">>, "file") >>

\* what the network answers: every fetch succeeds or every fetch fails; the
\* listing query answers with a status (0: no answer, a connection error or
\* a timeout)
Net(fetch, list_status) ==
    [fetch |-> fetch, body |-> C_remote, list_status |-> list_status,
     listing |-> IF list_status = 200 THEN RepoListing ELSE <<>>]
NetSamples == {Net("ok", 200), Net("fail", 200), Net("ok", 404), Net("ok", 500)}

Env(fs, net) == [fs |-> fs, net |-> net]

P_issue == S_issue_dir
P_colon == <<"t",":","d">>
P_url == <<"h","t","t","p","s",":","/","/","x","/","t",".","m","d">>
P_slug == <<"o","/","r">>
P_slugpath == <<"o","/","r",":","f",".","m","d">>
\* with an empty piece and a piece with white space before it
SamplePieces == {<<>>, <<" ","d","o","c","s">>, P_issue, P_colon, P_url, P_slug, P_slugpath}

\* The answers that matter for a descriptor: a remote form never reaches the
\* file system, a local form never reaches the network.

EnvsFor(d) ==
    IF is_url(d) \/ HasRepoPrefix(d)
    THEN {Env(FsNone, n) : n \in {Net("ok", 200), Net("fail", 200)}}
    ELSE IF is_github_repo_format(d)
    THEN {Env(f, n) : f \in {FsNone, FsDir(<<E_bug, E_txt, E_feat>>)}, n \in NetSamples}
    ELSE {Env(f, Net("ok", 200)) : f \in FsSamples}

RECURSIVE WorldsOver(_)
WorldsOver(D) ==
    IF D = {} THEN {<<>>}
    ELSE LET d == CHOOSE x \in D : TRUE
         IN  {(d :> e) @@ w : e \in EnvsFor(d), w \in WorldsOver(D \ {d})}

----------------------------------------------------------------------------
(* Startup: the module body of main.py                                     *)

Idle == /\ arg = <<>> /\ ret = <<>> /\ inflight = {} /\ responses = <<>>

Init ==
    /\ pc = "start"
    /\ \E pieces \in SeqsUpTo(SamplePieces, MaxSources) :
          /\ config = str_join(pieces, <<",">>)
          /\ world \in WorldsOver(Range(split_sources(config)))
    /\ sources = <<>>
    /\ idx = 1
    /\ routes = <<>>
    /\ stdout = <<>>
    /\ outcomes = <<>>
    /\ Idle

\* line 56
SplitSources ==
    /\ pc = "start"
    /\ sources' = split_sources(config)
    /\ pc' = "loop"
    /\ UNCHANGED <<config, world, idx, routes, stdout, outcomes,
                   arg, ret, inflight, responses>>

\* the state after an iteration that did r
Iterated(r) ==
    /\ routes' = r.routes
    /\ stdout' = stdout \o r.out
    /\ outcomes' = Append(outcomes,
           [source |-> sources[idx], caught |-> r.caught, tools |-> r.tools,
            first |-> Len(routes) + 1])
    /\ pc' = IF r.crashed THEN "crashed" ELSE "loop"

\* lines 57-62, one iteration
LoadNext ==
    /\ pc = "loop"
    /\ idx <= Len(sources)
    /\ Iterated(main_iteration(routes, sources[idx], world[sources[idx]]))
    /\ idx' = idx + 1
    /\ UNCHANGED <<config, world, sources, arg, ret, inflight, responses>>

\* line 65: the MCP server is created from the app once the loop has ended
CreateServer ==
    /\ pc = "loop"
    /\ idx > Len(sources)
    /\ pc' = "serving"
    /\ UNCHANGED <<config, world, sources, idx, routes, stdout, outcomes,
                   arg, ret, inflight, responses>>

Next == SplitSources \/ LoadNext \/ CreateServer

Spec == Init /\ [][Next]_vars

\* The control flow of the module body alone: what a step of Next does to
\* pc and idx, whatever it loads. Every step of Next is a step of Advance
\* and Advance is enabled exactly when Next is.
Advance ==
    \/ pc = "start" /\ pc' = "loop" /\ idx' = idx
    \/ pc = "loop" /\ idx <= Len(sources) /\ pc' \in {"loop", "crashed"} /\ idx' = idx + 1
    \/ pc = "loop" /\ idx > Len(sources) /\ pc' = "serving" /\ idx' = idx

\* The script runs to its end: no step of it waits for anything
FairSpec == Spec /\ WF_<<pc, idx>>(Advance)

----------------------------------------------------------------------------
(* Properties of startup                                                   *)

IsPrefix(s, t) == Len(s) <= Len(t) /\ SubSeq(t, 1, Len(s)) = s

\* the descriptors of the configured string: its comma-separated pieces that
\* hold something other than white space, without the white space around them
NonEmptyDescriptors(text) ==
    StripAll(SelectSeq(str_split(text, ","),
                       LAMBDA p : \E i \in 1..Len(p) : ~IsSpaceChar(p[i])))

\* the descriptors attempted so far, in order: the "Loading templates from"
\* lines of the output
Attempted ==
    LET lines == SelectSeq(stdout, LAMBDA l : l[1] = "Loading templates from")
    IN  [i \in 1..Len(lines) |-> lines[i][2]]

\* the routes registered by the iteration with outcome o
RoutesOf(o) == SubSeq(routes, o.first, o.first + o.tools - 1)

\* the matching files of a directory that can be read, and those that cannot
Readable(e) == e.kind = "file" /\ e.readable
GoodFiles(fs) == SelectSeq(glob_md(fs.entries), Readable)
BadFiles(fs) == SelectSeq(glob_md(fs.entries), LAMBDA e : ~Readable(e))

\* a descriptor that load_templates takes for a remote source
IsRemoteForm(d) == is_url(d) \/ HasRepoPrefix(d) \/ is_github_repo_format(d)

\* C1 (the claim as stated): a registration entry point applied to a local
\* directory of which exactly one matching file cannot be read lets no
\* exception out and registers one operation for each of the other files,
\* those after the unreadable one included.
C1_OneBadFileIsSkipped ==
    \A i \in 1..Len(outcomes) :
        LET o == outcomes[i]
            fs == world[o.source].fs
        IN  (fs.kind = "dir" /\ ~IsRemoteForm(o.source) /\ Len(BadFiles(fs)) = 1)
            => /\ o.caught = None
               /\ o.tools = Len(GoodFiles(fs))
               /\ [k \in 1..o.tools |-> RoutesOf(o)[k].source_identifier]
                  = [k \in 1..Len(GoodFiles(fs)) |->
                        path_join(o.source, GoodFiles(fs)[k].name)]

\* C2: every non-empty descriptor of the configured list is attempted, in list
\* order, whatever failed before it; no step removes or reorders a registered
\* operation; and startup reaches the creation of the server.
C2_EverySourceAttempted ==
    /\ [](/\ IsPrefix(Attempted, NonEmptyDescriptors(config))
          /\ pc = "serving" => Attempted = NonEmptyDescriptors(config))
    /\ [][IsPrefix(routes, routes')]_vars
    /\ <>(pc = "serving")

\* C2 witness: the server is created after a source failed and a later source
\* registered operations, the operations of the sources before it still there
C2_Witness ==
    /\ pc = "serving"
    /\ \E i, j \in 1..Len(outcomes) :
          /\ i < j
          /\ outcomes[i].caught # None
          /\ outcomes[j].tools > 0
          /\ Len(routes) >= outcomes[j].first + outcomes[j].tools - 1

\* C4 (the claim as stated): a descriptor naming an existing local directory
\* whose N markdown files each hold a placeholder yields N operations, each
\* with a non-empty schema, whatever the text of the descriptor.
C4_DirectoryYieldsN ==
    pc = "serving" =>
        \A i \in 1..Len(outcomes) :
            LET o == outcomes[i]
                fs == world[o.source].fs
            IN  (/\ fs.kind = "dir"
                 /\ Len(BadFiles(fs)) = 0
                 /\ \A k \in 1..Len(GoodFiles(fs)) :
                       slot_names(GoodFiles(fs)[k].content, {}) # <<>>)
                => /\ o.tools = Len(GoodFiles(fs))
                   /\ \A k \in 1..o.tools : RoutesOf(o)[k].schema # <<>>

\* C10 (the claim as stated): no two registered operations share a tool name,
\* that is a route path, so that there are as many distinct routable
\* operations as registered templates.
C10_DistinctToolNames ==
    /\ \A i, j \in 1..Len(routes) : i # j => routes[i].path # routes[j].path
    /\ Cardinality({routes[i].path : i \in 1..Len(routes)}) = Len(routes)

----------------------------------------------------------------------------
(* load_templates on its own: one call, on any descriptor                  *)

MaxDescriptorLen == 5

NoStartup ==
    /\ config = <<>> /\ world = <<>> /\ sources = <<>> /\ idx = 1
    /\ stdout = <<>> /\ outcomes = <<>>

\* descriptors: every string of at most MaxDescriptorLen characters over a
\* letter, the path separator and the colon, and some longer ones
LoadSamples ==
    { P_url, P_issue, P_slugpath,
      <<"H","T","T","P",":","/","/","x">>,
      <<"h","t","t","p",":","a","/","b">>,
      <<"o","/","r",":","a",":","b",".","m","d">>,
      <<"o","-","1","/","r",".","x",":">>,
      <<"d","o","c","s","/","b","u","g",".","m","d">> }
LoadSources == SeqsUpTo({"a", "/", ":"}, MaxDescriptorLen) \cup LoadSamples

\* Path(source) is a directory whatever the file system holds: '', '.', '/'
AlwaysDir(source) == path_parts(source) = <<>>

FsFor(source) ==
    IF AlwaysDir(source) THEN {FsDir(<<>>), FsDir(<<E_bug, E_feat>>)}
    ELSE {FsNone, FsOther, FsFile(TRUE), FsDir(<<E_bug, E_feat>>)}

NetAnswers ==
    {Net(fetch, status) : fetch \in {"ok", "fail"}, status \in {200, 404, 500, 0}}

InitLoad ==
    /\ pc = "call"
    /\ arg \in UNION {{[source |-> s, env |-> Env(f, n)] : f \in FsFor(s), n \in NetAnswers} :
                       s \in LoadSources}
    /\ ret = Ran(<<>>, None, <<>>)
    /\ routes = <<>> /\ inflight = {} /\ responses = <<>>
    /\ NoStartup

\* list(load_templates(source)): the generator is run to its end
CallLoadTemplates ==
    /\ pc = "call"
    /\ ret' = load_templates(arg.source, arg.env)
    /\ pc' = "returned"
    /\ UNCHANGED <<config, world, sources, idx, routes, stdout, outcomes,
                   arg, inflight, responses>>

SpecLoad == InitLoad /\ [][CallLoadTemplates]_vars

\* the rules of the resolution order that a descriptor satisfies
RepoOf(source) == str_split(str_split(source, ":")[1], "/")
Matches(k, source, fs) ==
    CASE k = 1 -> is_url(source)
      [] k = 2 -> HasRepoPrefix(source)
      [] k = 3 -> is_github_repo_format(source)
      [] k = 4 -> fs.kind = "dir"
      [] k = 5 -> fs.kind = "file"
      [] OTHER -> TRUE

\* what running load_templates shows when rule k handled the descriptor: the
\* first request it makes, and the kind of the sources it yields
HandledBy(k, source, r) ==
    CASE k = 1 -> /\ r.calls # <<>> /\ r.calls[1] = <<"GET", source>>
                  /\ \A i \in 1..Len(r.yielded) : r.yielded[i].source_type = "url"
      [] k = 2 -> /\ r.calls # <<>>
                  /\ r.calls[1] \in
                        { <<"GET", get_github_raw_url(RepoOf(source)[1], RepoOf(source)[2],
                                       str_split1(source, ":")[2], S_main)>>,
                          <<"LIST", RepoOf(source)[1], RepoOf(source)[2]>> }
                  /\ \A i \in 1..Len(r.yielded) : r.yielded[i].source_type = "github"
      [] k = 3 -> /\ r.calls # <<>>
                  /\ r.calls[1] = <<"LIST", str_split(source, "/")[1],
                                    str_split(source, "/")[2]>>
                  /\ \A i \in 1..Len(r.yielded) : r.yielded[i].source_type = "github"
      [] k = 4 -> /\ r.calls # <<>> /\ r.calls[1] = <<"GLOB", source>>
                  /\ \A i \in 1..Len(r.yielded) : r.yielded[i].source_type = "local_dir"
      [] k = 5 -> /\ r.calls # <<>> /\ r.calls[1] = <<"READ", source>>
                  /\ \A i \in 1..Len(r.yielded) : r.yielded[i].source_type = "local_file"
      [] OTHER -> r.calls = <<>> /\ r.yielded = <<>> /\ r.raised = "ValueError"

FirstRule(source, fs) == MinOf({k \in 1..6 : Matches(k, source, fs)})

\* C3: load_templates handles a descriptor by the first rule it satisfies in
\* the order URL, repository with path, bare repository, local directory,
\* local file, and raises the invalid-source error exactly when it satisfies
\* none of the five.
C3_FirstMatchWins ==
    pc = "returned" =>
        /\ HandledBy(FirstRule(arg.source, arg.env.fs), arg.source, ret)
        /\ ret.raised = "ValueError"
           <=> \A k \in 1..5 : ~Matches(k, arg.source, arg.env.fs)

\* C3 witness: a descriptor of repository shape that is also an existing
\* local directory has been loaded, from the repository
C3_Witness ==
    /\ pc = "returned"
    /\ Matches(3, arg.source, arg.env.fs)
    /\ Matches(4, arg.source, arg.env.fs)
    /\ ret.calls[1][1] = "LIST"

IsBareSlug(source) == ~is_url(source) /\ ~HasRepoPrefix(source) /\ is_github_repo_format(source)

\* C6 (the claim as stated): for a bare repository slug, any failure of the
\* listing query yields zero sources and no error.
C6_AnyListingFailureIsEmpty ==
    (pc = "returned" /\ IsBareSlug(arg.source) /\ arg.env.net.list_status # 200)
    => ret.yielded = <<>> /\ ret.raised = None

\* C6 (amended): for a bare repository slug, a 404 answer to the listing query
\* yields zero sources and no error; any other failure of the query (another
\* failing status, no answer) yields zero sources and raises the fetch error.
C6_OnlyNotFoundIsEmpty ==
    (pc = "returned" /\ IsBareSlug(arg.source))
    => /\ arg.env.net.list_status = 404
          => ret.yielded = <<>> /\ ret.raised = None
       /\ arg.env.net.list_status \notin {200, 404}
          => ret.yielded = <<>> /\ ret.raised = "FetchError"

\* C6 witness: a bare slug whose listing query was answered 404 has been loaded
C6_Witness ==
    /\ pc = "returned"
    /\ IsBareSlug(arg.source)
    /\ arg.env.net.list_status = 404
    /\ ret.calls = << <<"LIST", str_split(arg.source, "/")[1],
                        str_split(arg.source, "/")[2]>> >>

\* C7 (the claim as stated): a descriptor <owner>/<repo>:<path> whose raw
\* fetch succeeds yields exactly one source, of kind "github" and path
\* <owner>/<repo>/<path>, and makes no listing query, for every <path>.
C7_RepoPathYieldsOne ==
    (pc = "returned" /\ HasRepoPrefix(arg.source) /\ arg.env.net.fetch = "ok")
    => /\ Len(ret.yielded) = 1
       /\ ret.yielded[1].source_type = "github"
       /\ ret.yielded[1].source_path =
             str_split(arg.source, ":")[1] \o <<"/">> \o str_split1(arg.source, ":")[2]
       /\ \A i \in 1..Len(ret.calls) : ret.calls[i][1] # "LIST"

----------------------------------------------------------------------------
(* _create_tool_internal on its own: one call, on any parsed template      *)

MaxNameLen == 4
MaxSlots == 2

NameChars == {"B", "r", " ", "\t", "!"}
S_bug_report == <<"B","u","g"," ","R","e","p","o","r","t","!","!">>
Names == SeqsUpTo(NameChars, MaxNameLen) \cup {S_bug_report}

\* the variable slots a parsed template can hold: the parser has collapsed
\* slots of one name into one
SlotNames == {"x", "y", "z"}
Slots == {VariableSlot(n, d, e) : n \in SlotNames, d \in {<<>>, <<"what">>},
                                  e \in {<<>>, <<"e.g.">>}}
SlotLists ==
    {v \in SeqsUpTo(Slots, MaxSlots) :
        \A i, j \in 1..Len(v) : i # j => v[i].name # v[j].name}

Parsed(name, variables) ==
    [name |-> name, about |-> <<>>, variables |-> variables, raw_content |-> C_bug]

InitSynth ==
    /\ pc = "call"
    /\ arg \in {Parsed(n, <<>>) : n \in Names}
              \cup {Parsed(<<"B">>, v) : v \in SlotLists}
    /\ ret = Route(<<>>, Parsed(<<>>, <<>>), <<>>, <<>>, TRUE)
    /\ routes = <<>> /\ inflight = {} /\ responses = <<>>
    /\ NoStartup

\* _create_tool_internal(app, parsed, ..., tool_name=None)
CallCreateTool ==
    /\ pc = "call"
    /\ ret' = create_tool_internal(arg, arg.raw_content, <<"p">>, TRUE)
    /\ routes' = Append(routes, ret')
    /\ pc' = "returned"
    /\ UNCHANGED <<config, world, sources, idx, stdout, outcomes,
                   arg, inflight, responses>>

SpecSynth == InitSynth /\ [][CallCreateTool]_vars

\* the tool name of the claim: the characters that are neither word
\* characters nor white space removed, trimmed, lower-cased, every run of
\* white space made one underscore, "create_" in front; create_template when
\* nothing is left
RECURSIVE collapse_spaces(_)
collapse_spaces(s) ==
    IF s = <<>> THEN <<>>
    ELSE IF ~IsSpaceChar(s[1]) THEN <<s[1]>> \o collapse_spaces(Tail(s))
    ELSE IF Len(s) > 1 /\ IsSpaceChar(s[2]) THEN collapse_spaces(Tail(s))
    ELSE <<"_">> \o collapse_spaces(Tail(s))

ClaimedToolName(name) ==
    Prefixed(collapse_spaces(str_lower(str_strip(strip_punctuation(name)))))

\* C5 (the claim as stated): the derived tool name is that of the claim, for
\* every template name.
C5_ToolNameAsClaimed ==
    pc = "returned" => ret.name = ClaimedToolName(arg.name)

ClaimedDoc(v) ==
    IF v.example # <<>> THEN v.description \o S_example \o v.example ELSE v.description

\* C8: the schema has one field per variable slot, in slot order, named as the
\* slot, of type string, required and without default, documented by the
\* slot's description, followed by the example exactly when there is one.
C8_SchemaMirrorsSlots ==
    pc = "returned" =>
        /\ Len(ret.schema) = Len(arg.variables)
        /\ \A i \in 1..Len(ret.schema) :
              /\ ret.schema[i].name = arg.variables[i].name
              /\ ret.schema[i].type = "str"
              /\ ret.schema[i].required
              /\ ret.schema[i].default = <<>>
              /\ ret.schema[i].description = ClaimedDoc(arg.variables[i])

\* C8 witness: a tool has been made of a template with two slots, the first
\* with neither description nor example, the second with an example
C8_Witness ==
    /\ pc = "returned"
    /\ Len(arg.variables) = 2
    /\ arg.variables[1].description = <<>> /\ arg.variables[1].example = <<>>
    /\ arg.variables[2].example # <<>>
    /\ Len(ret.schema) = 2

----------------------------------------------------------------------------
(* Serving: the generated operations are invoked                           *)

MaxOps == 2
MaxRequests == 2

\* endpoint_func reading what the latest registration bound, not its own
endpoint_func_LateBinding(rts, k, input_data) ==
    render_template(rts[Len(rts)].template_content, input_data,
                    rts[Len(rts)].remove_comments)

\* lines 120-133: endpoint_func of the route registered k-th, a closure over
\* the template_content and remove_comments its _create_tool_internal was
\* called with
endpoint_func(rts, k, input_data) ==
    render_template(rts[k].template_content, input_data, rts[k].remove_comments)

ServeSources ==
    { <<TemplateSource(<<"b","u","g">>, C_bug, "local_file", <<"b","u","g">> \o S_md), TRUE>>,
      <<TemplateSource(<<"f">>, C_feat, "github", <<"o","/","r","/","f",".","m","d">>), TRUE>>,
      <<TemplateSource(<<"t">>, C_remote, "url", P_url), FALSE>> }

Values == {"v", "w"}

\* the request bodies InputModel accepts: a string for every field
InputsOf(route) == [{route.schema[i].name : i \in 1..Len(route.schema)} -> Values]

\* the route a request for `path` is dispatched to: the first registered
FirstWithPath(rts, path) == MinOf({i \in 1..Len(rts) : rts[i].path = path})

Request(id, op, input) == [id |-> id, op |-> op, input |-> input]
Response(q, result) == [id |-> q.id, op |-> q.op, input |-> q.input, result |-> result]

InitServe ==
    /\ pc = "registering"
    /\ routes = <<>>
    /\ inflight = {}
    /\ responses = <<>>
    /\ arg = <<>> /\ ret = <<>>
    /\ NoStartup

\* create_tool_from_source(app, source, remove_comments=...)
RegisterTool ==
    /\ pc = "registering"
    /\ Len(routes) < MaxOps
    /\ \E s \in ServeSources :
          routes' = Append(routes, create_tool_from_source(s[1], s[2]))
    /\ UNCHANGED <<pc, config, world, sources, idx, stdout, outcomes,
                   arg, ret, inflight, responses>>

\* the app starts to serve
StartServing ==
    /\ pc = "registering"
    /\ Len(routes) > 0
    /\ pc' = "serving"
    /\ UNCHANGED <<config, world, sources, idx, routes, stdout, outcomes,
                   arg, ret, inflight, responses>>

\* a POST to the path of an operation arrives and is validated
Accepted(k) ==
    \E input \in InputsOf(routes[k]) :
        inflight' = inflight \cup
                        {Request(Cardinality(inflight) + Len(responses) + 1, k, input)}

Receive ==
    /\ pc = "serving"
    /\ Cardinality(inflight) + Len(responses) < MaxRequests
    /\ \E i \in 1..Len(routes) : Accepted(FirstWithPath(routes, routes[i].path))
    /\ UNCHANGED <<pc, config, world, sources, idx, routes, stdout, outcomes,
                   arg, ret, responses>>

\* the event loop runs the endpoint_func of one of the pending requests; the
\* coroutine never awaits, so it runs to its end
Respond ==
    /\ pc = "serving"
    /\ \E q \in inflight :
          /\ responses' = Append(responses,
                                 Response(q, endpoint_func(routes, q.op, q.input)))
          /\ inflight' = inflight \ {q}
    /\ UNCHANGED <<pc, config, world, sources, idx, routes, stdout, outcomes,
                   arg, ret>>

NextServe == RegisterTool \/ StartServing \/ Receive \/ Respond

SpecServe == InitServe /\ [][NextServe]_vars

\* what the operation registered k-th captured when it was synthesized
RenderedBy(route, input) ==
    render_template(route.template_content, input, route.remove_comments)

\* C9: while the app serves, the registered operations and what each captured
\* never change, and every response, in whatever order the invocations ran,
\* is the rendering of the template and flag its own operation captured with
\* its own input: equal inputs to one operation give equal results.
C9_InvocationsIndependent ==
    /\ [][pc = "serving" => routes' = routes]_vars
    /\ [](\A i \in 1..Len(responses) :
             /\ responses[i].result = RenderedBy(routes[responses[i].op], responses[i].input)
             /\ \A j \in 1..Len(responses) :
                   (responses[j].op = responses[i].op /\ responses[j].input = responses[i].input)
                   => responses[j].result = responses[i].result)

\* C9 witness: two invocations of different operations have run in the order
\* opposite to their arrival, with different results
C9_Witness ==
    /\ Len(responses) = 2
    /\ responses[1].id = 2 /\ responses[2].id = 1
    /\ responses[1].op # responses[2].op
    /\ responses[1].result # responses[2].result
====
